---- MODULE Spec2Model ----
(***************************************************************************)
(* calculateFaraid (src/unnamed/part_001:28-401): the Islamic inheritance  *)
(* engine of the repository, as a state machine that runs the function     *)
(* stage by stage on a bounded set of rosters and estate amounts.          *)
(*                                                                         *)
(* The parts of the heirs are JavaScript Numbers, IEEE-754 doubles, and    *)
(* the code compares their rounded sums with 24.  The model therefore      *)
(* computes with doubles: a Number is the record [m, e] of value m * 2^e,  *)
(* m an odd natural number of at most 53 bits kept as a sequence of 15-bit *)
(* limbs (least significant first), 0 being [m |-> <<>>, e |-> 0].  Every  *)
(* arithmetic operator computes the exact result and rounds it to nearest, *)
(* ties to even, as the hardware does.                                     *)
(***************************************************************************)
EXTENDS Integers, Sequences, FiniteSets, TLC

(***************************************************************************)
(* Natural numbers of any size: sequences of limbs in base 2^15.           *)
(***************************************************************************)
LimbBits == 15
LimbBase == 32768

Min(x, y) == IF x < y THEN x ELSE y

Limb(a, i) == IF i >= 1 /\ i <= Len(a) THEN a[i] ELSE 0

RECURSIVE BTrim(_)
BTrim(a) == IF a = <<>> \/ a[Len(a)] # 0 THEN a ELSE BTrim(SubSeq(a, 1, Len(a) - 1))

BFromInt(n) == BTrim(<<n % LimbBase, (n \div LimbBase) % LimbBase, n \div (LimbBase * LimbBase)>>)

RECURSIVE BToIntFrom(_, _)
BToIntFrom(a, i) == IF i > Len(a) THEN 0 ELSE a[i] + LimbBase * BToIntFrom(a, i + 1)
BToInt(a) == BToIntFrom(a, 1)

\* the limbs of a + b from limb i on, c the carry into limb i
RECURSIVE BAddFrom(_, _, _, _)
BAddFrom(a, b, i, c) ==
    IF i > Len(a) /\ i > Len(b)
    THEN (IF c = 0 THEN <<>> ELSE <<c>>)
    ELSE <<(Limb(a, i) + Limb(b, i) + c) % LimbBase>>
         \o BAddFrom(a, b, i + 1, (Limb(a, i) + Limb(b, i) + c) \div LimbBase)
BAdd(a, b) == BAddFrom(a, b, 1, 0)

\* a - b for a >= b; c is the borrow out of the limbs below i
RECURSIVE BSubFrom(_, _, _, _)
BSubFrom(a, b, i, c) ==
    IF i > Len(a)
    THEN <<>>
    ELSE IF a[i] - Limb(b, i) - c < 0
         THEN <<a[i] - Limb(b, i) - c + LimbBase>> \o BSubFrom(a, b, i + 1, 1)
         ELSE <<a[i] - Limb(b, i) - c>> \o BSubFrom(a, b, i + 1, 0)
BSub(a, b) == BTrim(BSubFrom(a, b, 1, 0))

\* -1, 0 or 1 as a < b, a = b or a > b
RECURSIVE BCmpFrom(_, _, _)
BCmpFrom(a, b, i) ==
    IF i = 0 THEN 0
    ELSE IF a[i] < b[i] THEN -1
    ELSE IF a[i] > b[i] THEN 1
    ELSE BCmpFrom(a, b, i - 1)
BCmp(a, b) ==
    IF Len(a) < Len(b) THEN -1
    ELSE IF Len(a) > Len(b) THEN 1
    ELSE BCmpFrom(a, b, Len(a))

\* a * k for 0 <= k < 2^16
RECURSIVE BMulSmallFrom(_, _, _, _)
BMulSmallFrom(a, k, i, c) ==
    IF i > Len(a)
    THEN (IF c = 0 THEN <<>> ELSE <<c>>)
    ELSE <<(a[i] * k + c) % LimbBase>> \o BMulSmallFrom(a, k, i + 1, (a[i] * k + c) \div LimbBase)
BMulSmall(a, k) == IF k = 0 THEN <<>> ELSE BTrim(BMulSmallFrom(a, k, 1, 0))

BShlLimbs(a, n) == IF a = <<>> THEN a ELSE [i \in 1..n |-> 0] \o a

RECURSIVE BMulFrom(_, _, _)
BMulFrom(a, b, i) ==
    IF i > Len(b) THEN <<>>
    ELSE BAdd(BShlLimbs(BMulSmall(a, b[i]), i - 1), BMulFrom(a, b, i + 1))
BMul(a, b) == BMulFrom(a, b, 1)

\* a * 2^k
BShl(a, k) == BShlLimbs(BMulSmall(a, 2 ^ (k % LimbBits)), k \div LimbBits)

\* floor(a / 2^k): whole limbs are dropped, then the limbs are shifted by s < 15 bits
BDropLimbs(a, l) == IF l >= Len(a) THEN <<>> ELSE SubSeq(a, l + 1, Len(a))
BShrBits(a, s) ==
    BTrim([i \in 1..Len(a) |->
              (a[i] \div (2 ^ s)) + (Limb(a, i + 1) % (2 ^ s)) * (2 ^ (LimbBits - s))])
BShr(a, k) == BShrBits(BDropLimbs(a, k \div LimbBits), k % LimbBits)

RECURSIVE BitLenSmall(_)
BitLenSmall(n) == IF n = 0 THEN 0 ELSE 1 + BitLenSmall(n \div 2)
BBitLen(a) == IF a = <<>> THEN 0 ELSE LimbBits * (Len(a) - 1) + BitLenSmall(a[Len(a)])

\* the quotient and whether the remainder is not zero, of a by d > 0: long
\* division in base 2^15, the divisor scaled to a full top limb; r is the
\* remainder of the limbs above i, r1 the same with limb i brought down (the
\* digit is 0 when r1 < d)
RECURSIVE BFit(_, _, _)
BFit(d, r, q) == IF BCmp(BMulSmall(d, q), r) = 1 THEN BFit(d, r, q - 1) ELSE q

RECURSIVE BDivFrom(_, _, _, _)
RECURSIVE BDivDigit(_, _, _, _)
RECURSIVE BDivRest(_, _, _, _, _)
BDivFrom(a, d, i, r) ==
    IF i = 0 THEN [q |-> <<>>, r |-> r] ELSE BDivDigit(a, d, i, BTrim(<<a[i]>> \o r))
BDivDigit(a, d, i, r1) ==
    IF BCmp(r1, d) = -1
    THEN [BDivFrom(a, d, i - 1, r1) EXCEPT !.q = @ \o <<0>>]
    ELSE BDivRest(a, d, i, r1,
                  BFit(d, r1, Min(LimbBase - 1,
                                  (Limb(r1, Len(d) + 1) * LimbBase + Limb(r1, Len(d))) \div d[Len(d)])))
BDivRest(a, d, i, r1, qhat) ==
    [BDivFrom(a, d, i - 1, BSub(r1, BMulSmall(d, qhat))) EXCEPT !.q = @ \o <<qhat>>]

BDivResult(res) == [q |-> BTrim(res.q), inexact |-> res.r # <<>>]
BDivScaled(a, d) == BDivResult(BDivFrom(a, d, Len(a), <<>>))
BDivShift(a, d, t) == BDivScaled(BShl(a, t), BShl(d, t))
BDiv(a, d) == BDivShift(a, d, LimbBits - BitLenSmall(d[Len(d)]))

RECURSIVE TrailingZerosSmall(_)
TrailingZerosSmall(n) == IF n % 2 = 1 THEN 0 ELSE 1 + TrailingZerosSmall(n \div 2)
RECURSIVE BTrailingZerosFrom(_, _)
BTrailingZerosFrom(a, i) ==
    IF a[i] = 0 THEN LimbBits + BTrailingZerosFrom(a, i + 1) ELSE TrailingZerosSmall(a[i])
BTrailingZeros(a) == IF a = <<>> THEN 0 ELSE BTrailingZerosFrom(a, 1)

(***************************************************************************)
(* JavaScript Numbers (doubles) that are not negative.                     *)
(***************************************************************************)
MantissaBits == 53

Zero == [m |-> <<>>, e |-> 0]

\* the value n * 2^e in canonical form (n odd)
CanonShift(n, e, z) == [m |-> BShr(n, z), e |-> e + z]
Canon(n, e) == IF n = <<>> THEN Zero ELSE CanonShift(n, e, BTrailingZeros(n))

\* n * 2^e (plus a fraction of 2^e if sticky) rounded to the nearest double:
\* k bits are cut off, q is what stays, c compares what is cut with one half
RoundUp(q, c, sticky) == c = 1 \/ (c = 0 /\ (sticky \/ Limb(q, 1) % 2 = 1))
RoundQuotient(n, q, k, e, sticky) ==
    Canon(IF RoundUp(q, BCmp(BSub(n, BShl(q, k)), BShl(<<1>>, k - 1)), sticky)
          THEN BAdd(q, <<1>>) ELSE q,
          e + k)
RoundCut(n, e, sticky, k) ==
    IF k <= 0 THEN Canon(n, e) ELSE RoundQuotient(n, BShr(n, k), k, e, sticky)
RoundNearestEven(n, e, sticky) == RoundCut(n, e, sticky, BBitLen(n) - MantissaBits)

Num(n) == Canon(BFromInt(n), 0)

\* the mantissa of x at the exponent e <= x.e
Align(x, e) == BShl(x.m, x.e - e)

FAddAt(x, y, e) == RoundNearestEven(BAdd(Align(x, e), Align(y, e)), e, FALSE)
FAdd(x, y) ==
    IF y = Zero THEN x ELSE IF x = Zero THEN y ELSE FAddAt(x, y, Min(x.e, y.e))

\* -1, 0 or 1 as x < y, x = y or x > y
FCmpAt(x, y, e) == BCmp(Align(x, e), Align(y, e))
FCmp(x, y) == IF x = y THEN 0 ELSE FCmpAt(x, y, Min(x.e, y.e))
FLt(x, y) == FCmp(x, y) = -1
FGt(x, y) == FCmp(x, y) = 1

\* x - y for x >= y
FSubAt(x, y, e) == RoundNearestEven(BSub(Align(x, e), Align(y, e)), e, FALSE)
FSub(x, y) ==
    IF y = Zero THEN x ELSE IF x = y THEN Zero ELSE FSubAt(x, y, Min(x.e, y.e))

FMul(x, y) ==
    IF x = Zero \/ y = Zero THEN Zero ELSE RoundNearestEven(BMul(x.m, y.m), x.e + y.e, FALSE)

\* x / y for y > 0: a quotient of at least 55 bits, then rounded
FDivRound(res, e) == RoundNearestEven(res.q, e, res.inexact)
FDivAt(x, y, s) == FDivRound(BDiv(BShl(x.m, s), y.m), x.e - y.e - s)
FDiv(x, y) ==
    IF y # Zero /\ x = Zero THEN Zero ELSE FDivAt(x, y, MantissaBits + 2 + BBitLen(y.m))

\* Number.prototype.toFixed(f), as the integer n of the decimal n / 10^f:
\* the n nearest to x * 10^f, the larger one of two
ToFixedAt(n, e) ==
    IF e >= 0 THEN BToInt(BShl(n, e))
    ELSE BToInt(BShr(BAdd(n, BShl(<<1>>, (0 - e) - 1)), 0 - e))
ToFixed(x, f) == IF x = Zero THEN 0 ELSE ToFixedAt(BMul(x.m, BFromInt(10 ^ f)), x.e)

\* Math.round(x): floor(x + 1/2)
MathRound(x) == ToFixed(x, 0)

\* 24 - x, which is negative when x exceeds 24
SignedSub(x, y) ==
    IF FGt(y, x) THEN [neg |-> TRUE, abs |-> FSub(y, x)] ELSE [neg |-> FALSE, abs |-> FSub(x, y)]
SignedSub24(x) == SignedSub(Num(24), x)
Positive(s) == ~s.neg /\ s.abs # Zero

\* the sum of a sequence of Numbers, added left to right from 0
RECURSIVE FSumTo(_, _)
FSumTo(s, n) == IF n = 0 THEN Zero ELSE FAdd(FSumTo(s, n - 1), s[n])
FSum(s) == FSumTo(s, Len(s))

(***************************************************************************)
(* Sequences and Maps.  A Map is the sequence of its <<key, value>>        *)
(* entries in insertion order, the order Map.prototype.forEach visits.     *)
(***************************************************************************)

Range(s) == {s[i] : i \in 1..Len(s)}

MapHas(map, k) == \E i \in 1..Len(map) : map[i][1] = k
MapGet(map, k) == map[CHOOSE i \in 1..Len(map) : map[i][1] = k][2]
MapSet(map, k, v) ==
    IF MapHas(map, k)
    THEN [i \in 1..Len(map) |-> IF map[i][1] = k THEN <<k, v>> ELSE map[i]]
    ELSE Append(map, <<k, v>>)
MapValues(map) == [i \in 1..Len(map) |-> map[i][2]]
MapKeys(map) == {map[i][1] : i \in 1..Len(map)}

(***************************************************************************)
(* Relationship labels.  String.prototype.includes is modelled on the      *)
(* labels the code names: the set of those that contain the substring.     *)
(***************************************************************************)
alwaysExcluded ==
    {"Step-father", "Step-mother", "Adopted Child", "Foster Relations", "Illegitimate Child"}
\* a bug that leaves the aunts out of the distant kindred
distantKindred_noAunts ==
    {"Maternal Grandfather", "Daughter's Children", "Nephew (Sis)",
     "Niece (Sister's Daughter)", "Granddaughter (Daughter's Daughter)"}

distantKindred ==
    {"Maternal Grandfather", "Daughter's Children", "Paternal Aunt", "Maternal Aunt",
     "Nephew (Sis)", "Niece (Sister's Daughter)", "Granddaughter (Daughter's Daughter)"}
\* a bug that leaves the sisters out of the sibling rule
siblingLabels_brothersOnly ==
    {"Full Brother", "Consanguine Brother", "Uterine Brother", "Brother"}

siblingLabels ==
    {"Full Brother", "Full Sister", "Consanguine Brother", "Consanguine Sister",
     "Uterine Brother", "Uterine Sister", "Brother", "Sister"}
maleTypes ==
    {"Son", "Grandson", "Father", "Grandfather", "Full Brother", "Consanguine Brother",
     "Full Nephew", "Brother", "Paternal Brother", "Son's Son", "Grandson (Son's Son)"}

\* String.prototype.includes: sub occurs in s at some position
Includes(s, sub) ==
    \E i \in 1..(Len(s) - Len(sub) + 1) : SubSeq(s, i, i + Len(sub) - 1) = sub
IncludesDistant(r) == Includes(r, "Distant")
IncludesBrother(r) == Includes(r, "Brother")
IncludesSister(r) == Includes(r, "Sister")

(***************************************************************************)
(* 1. Normalization                                                        *)
(***************************************************************************)
NormalizeSpouseChild(h) ==
    LET rel == h.relationship
    IN  IF rel = "Child" \/ rel = "Children"
        THEN (IF h.heir_group = "Sons" THEN "Son"
              ELSE IF h.heir_group = "Daughters" THEN "Daughter" ELSE rel)
        ELSE IF rel = "Spouse"
        THEN (IF h.heir_group = "Wives" \/ h.gender = "Female" THEN "Wife"
              ELSE IF h.gender = "Male" THEN "Husband" ELSE rel)
        ELSE rel

NormalizeSynonym(rel, gender) ==
    IF rel = "Grandson (Son's Son)" \/ rel = "Son's Son" THEN "Grandson"
    ELSE IF rel = "Son's Daughter" THEN "Granddaughter"
    ELSE IF rel = "Paternal Brother" THEN "Consanguine Brother"
    ELSE IF rel = "Paternal Sister" THEN "Consanguine Sister"
    ELSE IF rel = "Maternal Sibling"
    THEN (IF gender = "Male" THEN "Uterine Brother" ELSE "Uterine Sister")
    ELSE IF rel = "Grandfather" \/ rel = "Paternal Grandfather" THEN "Grandfather"
    ELSE IF rel = "Grandmother" \/ rel = "Maternal Grandmother" \/ rel = "Paternal Grandmother"
    THEN "Grandmother"
    ELSE IF rel = "Nephew (Sister's Son)" THEN "Nephew (Sis)"
    ELSE IF rel = "Full Nephew (Brother's Son)" \/ rel = "Brother's Son" THEN "Full Nephew"
    ELSE rel

\* a bug that rewrites the relationship in the caller's object instead of a copy
NormalizeHeir_inPlace(h, n) ==
    [h EXCEPT !.relationship = NormalizeSynonym(NormalizeSpouseChild(h), h.gender)]

\* { ...h, relationship: rel }: a new object (the n objects of the caller are 1..n)
NormalizeHeir(h, n) ==
    [h EXCEPT !.relationship = NormalizeSynonym(NormalizeSpouseChild(h), h.gender),
              !.obj = n + h.obj]

Normalize(hs) == [i \in 1..Len(hs) |-> NormalizeHeir(hs[i], Len(hs))]

\* the array arr after the objects of written were assigned to: an element of
\* arr that is one of these objects shows the write
Store(arr, written) ==
    [i \in 1..Len(arr) |->
        IF \E j \in 1..Len(written) : written[j].obj = arr[i].obj
        THEN written[CHOOSE j \in 1..Len(written) : written[j].obj = arr[i].obj]
        ELSE arr[i]]

\* h with the property k set to v
SetProperty(h, k, v) == [f \in DOMAIN h \cup {k} |-> IF f = k THEN v ELSE h[f]]

count(norm, r) == Cardinality({i \in 1..Len(norm) : norm[i].relationship = r})
exists(norm, r) == count(norm, r) > 0

\* a bug that takes a Grandson for a Son
hasSon_orGrandson(norm) == exists(norm, "Son") \/ exists(norm, "Grandson")

hasSon(norm) == exists(norm, "Son")
hasMaleDescendant(norm) == hasSon(norm) \/ exists(norm, "Grandson")
\* a bug that overlooks the granddaughters
hasFemaleDescendant_daughtersOnly(norm) == exists(norm, "Daughter")

hasFemaleDescendant(norm) == exists(norm, "Daughter") \/ exists(norm, "Granddaughter")
\* a bug that overlooks the daughters and granddaughters
hasDescendant_maleOnly(norm) == hasMaleDescendant(norm)

hasDescendant(norm) == hasMaleDescendant(norm) \/ hasFemaleDescendant(norm)
hasFather(norm) == exists(norm, "Father")
hasGrandfather(norm) == exists(norm, "Grandfather")
\* a bug that forgets the Grandfather
hasMaleAscendant_fatherOnly(norm) == hasFather(norm)

hasMaleAscendant(norm) == hasFather(norm) \/ hasGrandfather(norm)

(***************************************************************************)
(* 2. Exclusion (Hajb).  A note is [name, text]: the heir it names (heirs  *)
(* are named by their id) and the text that follows the name.              *)
(***************************************************************************)
\* a bug that writes the note without the name of the heir
Note_unnamed(h, text) == [name |-> 0, text |-> text]

Note(h, text) == [name |-> h.id, text |-> text]

\* the two calls of an exclusion branch: isExcluded.add(h.id) and addNote(...)
NoExclusion == [ids |-> {}, notes |-> <<>>]
\* a bug that excludes the heir without a note
Exclude_withoutNote(h, text) == [ids |-> {h.id}, notes |-> <<>>]

Exclude(h, text) == [ids |-> {h.id}, notes |-> <<Note(h, text)>>]

\* a bug that lets two Daughters block a Granddaughter beside a Grandson
twoDaughtersNoGrandson_anyGrandson(norm) == count(norm, "Daughter") >= 2

twoDaughtersNoGrandson(norm) == count(norm, "Daughter") >= 2 /\ ~exists(norm, "Grandson")

\* the branches the forEach body of the exclusion stage takes for one heir,
\* in the order of the code
ExclusionBranches(norm, h) ==
    LET r == h.relationship
    IN  IF r \in alwaysExcluded
        THEN <<Exclude(h, "is excluded (No inheritance rights).")>>
        ELSE IF r \in distantKindred \/ IncludesDistant(r)
        THEN <<Exclude(h, "is Distant Kindred (Excluded).")>>
        ELSE
          << IF r = "Grandson" /\ hasSon(norm) THEN Exclude(h, "excluded by Son.")
             ELSE NoExclusion,
             IF r = "Grandfather" /\ hasFather(norm) THEN Exclude(h, "excluded by Father.")
             ELSE NoExclusion,
             IF r = "Grandmother" /\ exists(norm, "Mother") THEN Exclude(h, "excluded by Mother.")
             ELSE NoExclusion,
             IF r \in siblingLabels /\ hasMaleDescendant(norm)
             THEN Exclude(h, "excluded by Male Descendant.")
             ELSE IF r \in siblingLabels /\ hasFather(norm) THEN Exclude(h, "excluded by Father.")
             ELSE NoExclusion,
             IF r \in {"Consanguine Brother", "Consanguine Sister"} /\ exists(norm, "Full Brother")
             THEN Exclude(h, "excluded by Full Brother.")
             ELSE NoExclusion,
             IF r \in {"Uterine Brother", "Uterine Sister"}
                /\ (hasDescendant(norm) \/ hasMaleAscendant(norm))
             THEN Exclude(h, "excluded by Descendant or Male Ascendant.")
             ELSE NoExclusion,
             IF r = "Granddaughter" /\ hasSon(norm) THEN Exclude(h, "excluded by Son.")
             ELSE IF r = "Granddaughter" /\ twoDaughtersNoGrandson(norm)
             THEN Exclude(h, "excluded by 2+ Daughters (no Blessed Son).")
             ELSE NoExclusion,
             IF r = "Full Nephew"
                /\ (hasMaleDescendant(norm) \/ hasMaleAscendant(norm) \/ exists(norm, "Full Brother"))
             THEN Exclude(h, "excluded by closer male heir.")
             ELSE NoExclusion >>

\* the notes the addNote calls of these branches append, in order
RECURSIVE BranchNotes(_, _)
BranchNotes(branches, n) ==
    IF n = 0 THEN <<>> ELSE BranchNotes(branches, n - 1) \o branches[n].notes
ExclusionNotes(norm, h) ==
    BranchNotes(ExclusionBranches(norm, h), Len(ExclusionBranches(norm, h)))

RECURSIVE AllExclusionNotes(_, _)
AllExclusionNotes(norm, n) ==
    IF n = 0 THEN <<>> ELSE AllExclusionNotes(norm, n - 1) \o ExclusionNotes(norm, norm[n])

\* the ids the isExcluded.add calls of the branches put into the set
BranchIds(branches) == UNION {branches[k].ids : k \in 1..Len(branches)}
ExcludedIds(norm) == UNION {BranchIds(ExclusionBranches(norm, norm[i])) : i \in 1..Len(norm)}

IsActive(excl, h) == h.id \notin excl

\* a bug that lets the excluded heirs into the later stages
activeHeirs_unfiltered(norm, excl) == norm

activeHeirs(norm, excl) == SelectSeq(norm, LAMBDA h : IsActive(excl, h))

(***************************************************************************)
(* 3. Fixed shares (Furud), in parts out of 24                             *)
(***************************************************************************)
Share(p, l) == [parts |-> p, label |-> l]
NoShare == Share(Zero, "")

\* a bug that lets a single heir hold the two thirds
HalfOrTwoThirds_alwaysShared(n) == Share(FDiv(Num(16), Num(n)), "2/3 (Shared)")

\* 12 parts for one heir of the category, else 16 parts shared by them all
HalfOrTwoThirds(n) ==
    IF n = 1 THEN Share(Num(12), "1/2") ELSE Share(FDiv(Num(16), Num(n)), "2/3 (Shared)")

sibCount(norm) ==
    Cardinality({i \in 1..Len(norm) :
        IncludesBrother(norm[i].relationship) \/ IncludesSister(norm[i].relationship)})

\* a bug that forgets the complement of the Consanguine Sisters
SisterShare_noComplement(norm, r) ==
    IF hasDescendant(norm) \/ hasMaleAscendant(norm) \/ exists(norm, "Full Brother") THEN NoShare
    ELSE IF r = "Full Sister" THEN HalfOrTwoThirds(count(norm, "Full Sister"))
    ELSE IF r = "Consanguine Sister" /\ ~exists(norm, "Consanguine Brother")
            /\ ~exists(norm, "Full Sister")
    THEN HalfOrTwoThirds(count(norm, "Consanguine Sister"))
    ELSE NoShare

SisterShare(norm, r) ==
    LET noBlock == ~hasDescendant(norm) /\ ~hasMaleAscendant(norm)
        s1 == IF r = "Full Sister" /\ ~exists(norm, "Full Brother") /\ noBlock
              THEN HalfOrTwoThirds(count(norm, "Full Sister")) ELSE NoShare
        s2 == IF r = "Consanguine Sister" /\ ~exists(norm, "Consanguine Brother")
                 /\ ~exists(norm, "Full Brother") /\ ~exists(norm, "Full Sister") /\ noBlock
              THEN HalfOrTwoThirds(count(norm, "Consanguine Sister")) ELSE s1
    IN  IF r = "Consanguine Sister" /\ count(norm, "Full Sister") = 1
           /\ ~exists(norm, "Full Brother") /\ ~exists(norm, "Consanguine Brother") /\ noBlock
        THEN Share(FDiv(Num(4), Num(count(norm, "Consanguine Sister"))), "1/6 (Complement)")
        ELSE s2

\* the parts and label the forEach body of the fixed-share stage computes for one heir
FixedShare(norm, h) ==
    LET r == h.relationship
    IN  IF r = "Husband"
        THEN (IF hasDescendant(norm) THEN Share(Num(6), "1/4") ELSE Share(Num(12), "1/2"))
        ELSE IF r = "Wife"
        THEN LET wCount == count(norm, "Wife")
                 totalWifeParts == IF hasDescendant(norm) THEN 3 ELSE 6
             IN  Share(FDiv(Num(totalWifeParts), Num(wCount)),
                       IF hasDescendant(norm)
                       THEN (IF wCount > 1 THEN "1/8 (Shared)" ELSE "1/8")
                       ELSE (IF wCount > 1 THEN "1/4 (Shared)" ELSE "1/4"))
        ELSE IF r = "Father"
        THEN (IF hasMaleDescendant(norm) THEN Share(Num(4), "1/6")
              ELSE IF hasFemaleDescendant(norm) THEN Share(Num(4), "1/6 + Residue")
              ELSE NoShare)
        ELSE IF r = "Mother"
        THEN (IF hasDescendant(norm) \/ sibCount(norm) >= 2
              THEN Share(Num(4), "1/6") ELSE Share(Num(8), "1/3"))
        ELSE IF r = "Daughter"
        THEN (IF ~hasSon(norm) THEN HalfOrTwoThirds(count(norm, "Daughter")) ELSE NoShare)
        ELSE IF r = "Granddaughter"
        THEN (IF ~exists(norm, "Grandson")
              THEN (IF ~exists(norm, "Daughter")
                    THEN HalfOrTwoThirds(count(norm, "Granddaughter"))
                    ELSE IF count(norm, "Daughter") = 1
                    THEN Share(FDiv(Num(4), Num(count(norm, "Granddaughter"))), "1/6 (Complement)")
                    ELSE NoShare)
              ELSE NoShare)
        ELSE IF r = "Grandfather"
        THEN (IF hasMaleDescendant(norm) THEN Share(Num(4), "1/6")
              ELSE IF hasFemaleDescendant(norm) THEN Share(Num(4), "1/6 + Residue")
              ELSE NoShare)
        ELSE IF r = "Grandmother"
        THEN Share(FDiv(Num(4), Num(count(norm, "Grandmother"))), "1/6 (Shared)")
        ELSE IF IncludesSister(r) /\ r # "Maternal Sister"
        THEN SisterShare(norm, r)
        ELSE IF r = "Uterine Brother" \/ r = "Uterine Sister"
        THEN LET uCount == count(norm, "Uterine Brother") + count(norm, "Uterine Sister")
             IN  Share(FDiv(Num(IF uCount = 1 THEN 4 ELSE 8), Num(uCount)),
                       IF uCount = 1 THEN "1/6" ELSE "1/3 (Shared)")
        ELSE NoShare

\* partsMap and labelMap after the fixed-share stage: setShare for every
\* active heir whose parts are positive
RECURSIVE FixedParts(_, _, _)
FixedParts(norm, act, n) ==
    IF n = 0 THEN <<>>
    ELSE LET sh == FixedShare(norm, act[n])
         IN  IF sh.parts # Zero
             THEN Append(FixedParts(norm, act, n - 1), <<act[n].id, sh.parts>>)
             ELSE FixedParts(norm, act, n - 1)

FixedLabels(norm, act) ==
    LET ids == {act[i].id : i \in {j \in 1..Len(act) : FixedShare(norm, act[j]).parts # Zero}}
    IN  [id \in ids |-> FixedShare(norm, act[CHOOSE i \in 1..Len(act) : act[i].id = id]).label]

(***************************************************************************)
(* 4. Residue (Asabah)                                                     *)
(***************************************************************************)
OfRel(act, r) == SelectSeq(act, LAMBDA h : h.relationship = r)
First(s) == IF s = <<>> THEN <<>> ELSE <<s[1]>>

residuaryGroup(norm, act) ==
    IF hasSon(norm) THEN OfRel(act, "Son") \o OfRel(act, "Daughter")
    ELSE IF exists(norm, "Grandson") THEN OfRel(act, "Grandson") \o OfRel(act, "Granddaughter")
    ELSE IF hasFather(norm) THEN First(OfRel(act, "Father"))
    ELSE IF hasGrandfather(norm) THEN First(OfRel(act, "Grandfather"))
    ELSE IF exists(norm, "Full Brother")
    THEN OfRel(act, "Full Brother") \o OfRel(act, "Full Sister")
    ELSE IF exists(norm, "Consanguine Brother")
    THEN OfRel(act, "Consanguine Brother") \o OfRel(act, "Consanguine Sister")
    ELSE IF exists(norm, "Full Nephew") THEN OfRel(act, "Full Nephew")
    ELSE <<>>

Weight(h) == IF h.relationship \in maleTypes \/ h.gender = "Male" THEN 2 ELSE 1

\* h._w = w, for every member of the group
Weighted(group) == [i \in 1..Len(group) |-> SetProperty(group[i], "_w", Weight(group[i]))]

RECURSIVE totalWeight(_, _)
totalWeight(group, n) == IF n = 0 THEN 0 ELSE totalWeight(group, n - 1) + group[n]._w

ResidueShare(group, h, residue) ==
    FMul(FDiv(Num(h._w), Num(totalWeight(group, Len(group)))), residue)

\* partsMap after the residue was handed to the first n members of the group
RECURSIVE AddResidue(_, _, _, _)
AddResidue(map, group, residue, n) ==
    IF n = 0 THEN map
    ELSE LET prev == AddResidue(map, group, residue, n - 1)
             id   == group[n].id
             currentParts == IF MapHas(prev, id) THEN MapGet(prev, id) ELSE Zero
         IN  MapSet(prev, id, FAdd(currentParts, ResidueShare(group, group[n], residue)))

\* a bug that reports the size of the residue without its sign
MaxZero_unsigned(res) == res.abs

\* Math.max(0, residue)
MaxZero(res) == IF res.neg THEN Zero ELSE res.abs

ResidueLabels(labels, group) ==
    LET ids == {group[i].id : i \in 1..Len(group)}
    IN  [id \in DOMAIN labels \cup ids |->
            IF id \in ids
            THEN (IF id \in DOMAIN labels /\ labels[id] # ""
                  THEN labels[id] \o " + Residue" ELSE "Residue")
            ELSE labels[id]]

(***************************************************************************)
(* 5. Radd                                                                 *)
(***************************************************************************)
\* a bug that lets the spouses take part in Radd
raddHeirs_withSpouses(act, map) == SelectSeq(act, LAMBDA h : MapHas(map, h.id))

raddHeirs(act, map) ==
    SelectSeq(act, LAMBDA h : h.relationship # "Husband" /\ h.relationship # "Wife"
                              /\ MapHas(map, h.id))

raddBase(radd, map) == FSum([i \in 1..Len(radd) |-> MapGet(map, radd[i].id)])

\* partsMap after the first n Radd heirs received their boost
RECURSIVE AddRadd(_, _, _, _, _)
AddRadd(map, radd, base, surplus, n) ==
    IF n = 0 THEN map
    ELSE LET prev == AddRadd(map, radd, base, surplus, n - 1)
             own  == MapGet(prev, radd[n].id)
         IN  MapSet(prev, radd[n].id, FAdd(own, FMul(FDiv(own, base), surplus)))

(***************************************************************************)
(* 6. Output.  Decimal results are kept as integers: parts in thousandths  *)
(* (toFixed(3)), sharePercentage in hundredths (toFixed(2)).               *)
(***************************************************************************)
PartsOf(map, id) == IF MapHas(map, id) THEN MapGet(map, id) ELSE Zero
LabelOf(labels, id) == IF id \in DOMAIN labels /\ labels[id] # "" THEN labels[id] ELSE ""

Amount(map, h, base, estate) == FMul(FDiv(PartsOf(map, h.id), base), Num(estate))

\* { ...h, fraction, parts, sharePercentage, shareAmount }: the properties of h
\* (obj is the identity of h, not a property) and the four computed ones
ShareResult(map, labels, h, base, estate) ==
    [f \in (DOMAIN h \ {"obj"}) \cup {"fraction", "parts", "sharePercentage", "shareAmount"} |->
        CASE f = "fraction" ->
                 IF LabelOf(labels, h.id) # "" THEN LabelOf(labels, h.id) ELSE "Excluded"
          [] f = "parts" -> ToFixed(PartsOf(map, h.id), 3)
          [] f = "sharePercentage" ->
                 ToFixed(FMul(FDiv(PartsOf(map, h.id), base), Num(100)), 2)
          [] f = "shareAmount" -> MathRound(Amount(map, h, base, estate))
          [] OTHER -> h[f]]

\* results.groupSummary is a plain object: under these names it inherits a
\* value from Object.prototype, so the test of line 386 finds one, no entry
\* is made, and count and totalShare are written to the inherited object
ObjectPrototypeNames ==
    {"constructor", "__proto__", "hasOwnProperty", "isPrototypeOf", "propertyIsEnumerable",
     "toLocaleString", "toString", "valueOf", "__defineGetter__", "__defineSetter__",
     "__lookupGetter__", "__lookupSetter__"}

GroupSummary(map, labels, act, base, estate) ==
    LET groups == {act[i].heir_group : i \in 1..Len(act)} \ ObjectPrototypeNames
        members(g) == SelectSeq(act, LAMBDA h : h.heir_group = g)
    IN  [g \in groups |->
            LET ms == members(g)
            IN  [count |-> Len(ms),
                 totalShare |-> FSum([i \in 1..Len(ms) |-> Amount(map, ms[i], base, estate)]),
                 fraction |-> IF LabelOf(labels, ms[1].id) # ""
                              THEN LabelOf(labels, ms[1].id) ELSE "N/A",
                 partsPerHeir |-> ToFixed(PartsOf(map, ms[1].id), 3)]]

\* the heirs of such a group run lines 394-395 on the inherited object:
\* count++ and totalShare += amt turn its two properties, undefined before,
\* into NaN, and they stay NaN in every later call
NaN == "NaN"
NoWrites == [g \in {} |-> [count |-> NaN, totalShare |-> NaN]]
InheritedWrites(written, act) ==
    [g \in DOMAIN written \cup ({act[i].heir_group : i \in 1..Len(act)} \cap ObjectPrototypeNames) |->
        [count |-> NaN, totalShare |-> NaN]]

(***************************************************************************)
(* The inputs: rosters of at most MaxHeirs heirs, each of one of the kinds *)
(* of HeirKinds, with ids 1, 2, ... in roster order, and the estates.      *)
(***************************************************************************)
MaxHeirs == 3
MaxEstate == 2400000

Kind(rel, gender, group) == [relationship |-> rel, gender |-> gender, heir_group |-> group]

HeirKinds ==
    << Kind("Husband", "None", "Spouses"), Kind("Wife", "None", "Wives"),
       Kind("Father", "None", "Parents"), Kind("Mother", "None", "Parents"),
       Kind("Son", "None", "Sons"), Kind("Daughter", "None", "Daughters"),
       Kind("Grandson", "None", "Others"), Kind("Granddaughter", "None", "Others"),
       Kind("Grandfather", "None", "Others"), Kind("Grandmother", "None", "Others"),
       Kind("Full Brother", "None", "Others"), Kind("Full Sister", "None", "Others"),
       Kind("Consanguine Brother", "None", "Others"), Kind("Consanguine Sister", "None", "Others"),
       Kind("Uterine Brother", "None", "Others"), Kind("Uterine Sister", "None", "Others"),
       Kind("Full Nephew", "None", "Others"),
       Kind("Child", "None", "Sons"), Kind("Child", "None", "Daughters"),
       Kind("Spouse", "Female", "Spouses"),
       Kind("Cousin", "None", "Others"), Kind("Brother", "None", "Others"),
       Kind("Step-father", "None", "Others") >>

\* obj is the identity of the JavaScript object, which no property holds
Heir(i, k) == [id |-> i, relationship |-> k.relationship, gender |-> k.gender,
               heir_group |-> k.heir_group, obj |-> i]

\* rosters of up to max heirs of the given kinds, in every order: the sums of
\* the code run over the heirs in the order of the roster
KindSeqs(n, max) == UNION {[1..l -> 1..n] : l \in 0..max}
RostersOver(kinds, max) ==
    {[i \in 1..Len(s) |-> Heir(i, kinds[s[i]])] : s \in KindSeqs(Len(kinds), max)}
Rosters == RostersOver(HeirKinds, MaxHeirs)
Estates == {0, MaxEstate}

Undefined == "undefined"

VARIABLES
    pc,               \* the stage calculateFaraid is about to run
    netEstate, heirs, \* the arguments
    results,          \* the result object
    normalizedHeirs, isExcluded, partsMap, labelMap, residue, group, finalTotal,
    call,             \* 1 in the first call, 2 in a second call with the same arguments
    first,            \* what the first call returned, once a second call has begun
    inherited         \* the properties written to objects every plain object inherits

callVars == <<call, first, inherited>>
vars == <<pc, netEstate, heirs, results, normalizedHeirs, isExcluded, partsMap, labelMap,
          residue, group, finalTotal, call, first, inherited>>

\* the result object and the locals as a call begins
NewResults(estate) ==
    [heirs |-> <<>>, baseNumber |-> Num(24), totalFixedParts |-> Zero,
     residueParts |-> Zero, notes |-> <<>>, case |-> "Standard",
     netEstate |-> estate, groupSummary |-> <<>>, perPortion |-> Undefined]
Begin ==
    /\ pc = "start"
    /\ results = NewResults(netEstate)
    /\ normalizedHeirs = <<>>
    /\ isExcluded = {}
    /\ partsMap = <<>>
    /\ labelMap = <<>>
    /\ residue = [neg |-> FALSE, abs |-> Zero]
    /\ group = <<>>
    /\ finalTotal = Zero

Init ==
    /\ heirs \in Rosters
    /\ netEstate \in Estates
    /\ call = 1
    /\ first = Undefined
    /\ inherited = NoWrites
    /\ Begin

\* if (!heirs || heirs.length === 0) return results
ReturnEmpty ==
    /\ pc = "start"
    /\ heirs = <<>>
    /\ pc' = "done"
    /\ UNCHANGED <<netEstate, heirs, results, normalizedHeirs, isExcluded, partsMap, labelMap,
                   residue, group, finalTotal>>
    /\ UNCHANGED callVars

NormalizeStage ==
    /\ pc = "start"
    /\ heirs # <<>>
    /\ normalizedHeirs' = Normalize(heirs)
    /\ heirs' = Store(heirs, normalizedHeirs')
    /\ pc' = "exclusion"
    /\ UNCHANGED <<netEstate, results, isExcluded, partsMap, labelMap, residue, group,
                   finalTotal>>
    /\ UNCHANGED callVars

ExclusionStage ==
    /\ pc = "exclusion"
    /\ isExcluded' = ExcludedIds(normalizedHeirs)
    /\ results' = [results EXCEPT !.notes = AllExclusionNotes(normalizedHeirs, Len(normalizedHeirs))]
    /\ pc' = "fixed"
    /\ UNCHANGED <<netEstate, heirs, normalizedHeirs, partsMap, labelMap, residue, group,
                   finalTotal>>
    /\ UNCHANGED callVars

FixedShareStage ==
    /\ pc = "fixed"
    /\ LET act == activeHeirs(normalizedHeirs, isExcluded)
       IN  /\ partsMap' = FixedParts(normalizedHeirs, act, Len(act))
           /\ labelMap' = FixedLabels(normalizedHeirs, act)
    /\ pc' = "residue"
    /\ UNCHANGED <<netEstate, heirs, results, normalizedHeirs, isExcluded, residue, group,
                   finalTotal>>
    /\ UNCHANGED callVars

\* residue > 0 and a residuary group: the group takes the residue by weight
DistributeResidue ==
    /\ pc = "residue"
    /\ LET act == activeHeirs(normalizedHeirs, isExcluded)
           res == SignedSub24(FSum(MapValues(partsMap)))
           grp == Weighted(residuaryGroup(normalizedHeirs, act))
       IN  /\ Positive(res) /\ Len(grp) > 0
           /\ residue' = res
           /\ group' = grp
           /\ normalizedHeirs' = Store(normalizedHeirs, grp)
           /\ heirs' = Store(heirs, grp)
           /\ partsMap' = AddResidue(partsMap, grp, res.abs, Len(grp))
           /\ labelMap' = ResidueLabels(labelMap, grp)
           /\ results' = [results EXCEPT !.residueParts = Zero]
    /\ pc' = "adjust"
    /\ UNCHANGED <<netEstate, isExcluded, finalTotal>>
    /\ UNCHANGED callVars

\* otherwise residueParts = Math.max(0, residue)
KeepResidue ==
    /\ pc = "residue"
    /\ LET act == activeHeirs(normalizedHeirs, isExcluded)
           res == SignedSub24(FSum(MapValues(partsMap)))
           grp == residuaryGroup(normalizedHeirs, act)
       IN  /\ ~(Positive(res) /\ Len(grp) > 0)
           /\ residue' = res
           /\ group' = grp
           /\ results' = [results EXCEPT !.residueParts = MaxZero(res)]
    /\ pc' = "adjust"
    /\ UNCHANGED <<netEstate, heirs, normalizedHeirs, isExcluded, partsMap, labelMap,
                   finalTotal>>
    /\ UNCHANGED callVars

\* finalTotal > 24
Awl ==
    /\ pc = "adjust"
    /\ LET total == FSum(MapValues(partsMap))
       IN  /\ FGt(total, Num(24))
           /\ finalTotal' = total
           /\ results' = [results EXCEPT !.case = "Awl", !.baseNumber = total,
                              !.notes = Append(@, [name |-> 0, text |-> "Awl Case"])]
    /\ pc' = "output"
    /\ UNCHANGED <<netEstate, heirs, normalizedHeirs, isExcluded, partsMap, labelMap, residue,
                   group>>
    /\ UNCHANGED callVars

\* finalTotal < 24 && residue > 0, and some heir other than a spouse holds parts
Radd ==
    /\ pc = "adjust"
    /\ LET total == FSum(MapValues(partsMap))
           act   == activeHeirs(normalizedHeirs, isExcluded)
           radd  == raddHeirs(act, partsMap)
       IN  /\ FLt(total, Num(24)) /\ Positive(residue)
           /\ Len(radd) > 0
           /\ partsMap' = AddRadd(partsMap, radd, raddBase(radd, partsMap),
                                  FSub(Num(24), total), Len(radd))
           /\ finalTotal' = Num(24)
           /\ results' = [results EXCEPT !.case = "Radd", !.residueParts = Zero,
                              !.notes = Append(@, [name |-> 0, text |-> "Radd Case"])]
    /\ pc' = "output"
    /\ UNCHANGED <<netEstate, heirs, normalizedHeirs, isExcluded, labelMap, residue, group>>
    /\ UNCHANGED callVars

NoAdjustment ==
    /\ pc = "adjust"
    /\ LET total == FSum(MapValues(partsMap))
           act   == activeHeirs(normalizedHeirs, isExcluded)
       IN  /\ ~FGt(total, Num(24))
           /\ ~(FLt(total, Num(24)) /\ Positive(residue) /\ Len(raddHeirs(act, partsMap)) > 0)
           /\ finalTotal' = total
    /\ pc' = "output"
    /\ UNCHANGED <<netEstate, heirs, results, normalizedHeirs, isExcluded, partsMap, labelMap,
                   residue, group>>
    /\ UNCHANGED callVars

OutputStage ==
    /\ pc = "output"
    /\ LET act  == activeHeirs(normalizedHeirs, isExcluded)
           base == IF results.case = "Awl" THEN finalTotal ELSE Num(24)
       IN  /\ results' = [results EXCEPT
                   !.baseNumber = base,
                   !.perPortion = FDiv(Num(netEstate), base),
                   !.heirs = [i \in 1..Len(act) |->
                                 ShareResult(partsMap, labelMap, act[i], base, netEstate)],
                   !.groupSummary = GroupSummary(partsMap, labelMap, act, base, netEstate),
                   !.totalFixedParts = finalTotal]
           /\ inherited' = InheritedWrites(inherited, act)
    /\ pc' = "done"
    /\ UNCHANGED <<netEstate, heirs, normalizedHeirs, isExcluded, partsMap, labelMap, residue,
                   group, finalTotal>>
    /\ UNCHANGED <<call, first>>

Next ==
    \/ ReturnEmpty
    \/ NormalizeStage
    \/ ExclusionStage
    \/ FixedShareStage
    \/ DistributeResidue
    \/ KeepResidue
    \/ Awl
    \/ Radd
    \/ NoAdjustment
    \/ OutputStage

Spec == Init /\ [][Next]_vars

(***************************************************************************)
(* Two calls in a row with the same arguments: the second call is given    *)
(* the estate and the heir objects of the first, as the first left them.   *)
(***************************************************************************)
MaxHeirsTwice == 3

TwiceKinds ==
    << Kind("Husband", "None", "Spouses"), Kind("Spouse", "Female", "Spouses"),
       Kind("Father", "None", "Parents"),
       Kind("Child", "None", "Sons"), Kind("Child", "None", "Daughters"),
       Kind("Daughter", "None", "Daughters"), Kind("Full Sister", "None", "Others"),
       Kind("Step-father", "None", "Others"), Kind("Daughter", "None", "__proto__") >>

CallAgain ==
    /\ pc = "done"
    /\ call = 1
    /\ call' = 2
    /\ first' = results
    /\ pc' = "start"
    /\ results' = NewResults(netEstate)
    /\ normalizedHeirs' = <<>>
    /\ isExcluded' = {}
    /\ partsMap' = <<>>
    /\ labelMap' = <<>>
    /\ residue' = [neg |-> FALSE, abs |-> Zero]
    /\ group' = <<>>
    /\ finalTotal' = Zero
    /\ UNCHANGED <<netEstate, heirs, inherited>>

InitTwice ==
    /\ heirs \in RostersOver(TwiceKinds, MaxHeirsTwice)
    /\ netEstate \in Estates
    /\ call = 1
    /\ first = Undefined
    /\ inherited = NoWrites
    /\ Begin

NextTwice == Next \/ CallAgain

SpecTwice == InitTwice /\ [][NextTwice]_vars

(***************************************************************************)
(* The properties                                                          *)
(***************************************************************************)
RECURSIVE SumTo(_, _)
SumTo(s, n) == IF n = 0 THEN 0 ELSE SumTo(s, n - 1) + s[n]
Sum(s) == SumTo(s, Len(s))

Abs(x) == IF x < 0 THEN 0 - x ELSE x

Returned == pc = "done"
ReportedParts == [i \in 1..Len(results.heirs) |-> results.heirs[i].parts]
ReportedAmounts == [i \in 1..Len(results.heirs) |-> results.heirs[i].shareAmount]
ReportsOf(id) == {i \in 1..Len(results.heirs) : results.heirs[i].id = id}

\* the heirs the code passes on to the stages after the exclusion stage
Active == SelectSeq(normalizedHeirs, LAMBDA h : h.id \notin isExcluded)
ActiveOf(rels) == {Active[i].id : i \in {j \in 1..Len(Active) : Active[j].relationship \in rels}}
ResidueDistributed == Positive(residue) /\ group # <<>>
SomeHeirInherits == \E i \in 1..Len(results.heirs) : results.heirs[i].parts > 0

\* C1: for every non-empty roster the parts of the returned heirs (decimals of
\* three places) sum to the returned baseNumber exactly (stated for the results
\* in which at least one heir holds parts).
C1_PartsSumToBase ==
    (Returned /\ SomeHeirInherits) => FDiv(Num(Sum(ReportedParts)), Num(1000)) = results.baseNumber

\* C2: every heir of the roster appears exactly once in result.heirs, with
\* positive parts or with the fraction label "Excluded", the heirs of the
\* excluded set included.
C2_EveryHeirReportedOnce ==
    Returned =>
        \A i \in 1..Len(heirs) :
            /\ Cardinality(ReportsOf(heirs[i].id)) = 1
            /\ \A j \in ReportsOf(heirs[i].id) :
                  results.heirs[j].parts > 0 \/ results.heirs[j].fraction = "Excluded"

\* C3: an heir whose id is in the excluded set never holds parts: not after
\* the fixed-share stage, nor after the residue distribution, nor after Radd.
C3_ExcludedHoldNoParts ==
    \A id \in isExcluded : ~MapHas(partsMap, id) /\ id \notin DOMAIN labelMap

\* a Grandson, Grandfather, Full Brother, Consanguine Brother or Full Nephew of
\* the roster is excluded, and the residue went to a residuary group
C3_Witness ==
    /\ Returned /\ ResidueDistributed /\ Len(partsMap) >= 2
    /\ \E i \in 1..Len(normalizedHeirs) :
          /\ normalizedHeirs[i].id \in isExcluded
          /\ normalizedHeirs[i].relationship \in
                {"Grandson", "Grandfather", "Full Brother", "Consanguine Brother", "Full Nephew"}

\* C4: the shareAmounts of the returned heirs sum to the estate amount within
\* one currency unit (stated for the results in which at least one
\* heir holds parts).
C4_AmountsSumToEstate ==
    (Returned /\ SomeHeirInherits) => Abs(Sum(ReportedAmounts) - netEstate) <= 1

\* the heirs Radd raises, the condition under which it runs, and its effect
RaddEligible ==
    SelectSeq(Active, LAMBDA h : h.relationship \notin {"Husband", "Wife"} /\ MapHas(partsMap, h.id))
RaddPremise ==
    /\ pc = "adjust"
    /\ FLt(FSum(MapValues(partsMap)), Num(24))
    /\ ~ResidueDistributed
    /\ RaddEligible # <<>>
RaddStep ==
    LET total     == FSum(MapValues(partsMap))
        eligible  == {RaddEligible[i].id : i \in 1..Len(RaddEligible)}
        originals == FSum([i \in 1..Len(RaddEligible) |-> MapGet(partsMap, RaddEligible[i].id)])
        shortfall == FSub(Num(24), total)
    IN  RaddPremise =>
            /\ results'.case = "Radd"
            /\ results'.baseNumber = Num(24)
            /\ finalTotal' = Num(24)
            /\ Len(partsMap') = Len(partsMap)
            /\ \A i \in 1..Len(partsMap) :
                  /\ partsMap'[i][1] = partsMap[i][1]
                  /\ partsMap'[i][2] =
                        IF partsMap[i][1] \in eligible
                        THEN FAdd(partsMap[i][2],
                                  FMul(FDiv(partsMap[i][2], originals), shortfall))
                        ELSE partsMap[i][2]
RaddResult ==
    (Returned /\ results.case = "Radd") =>
        /\ results.baseNumber = Num(24)
        /\ results.totalFixedParts = Num(24)
        /\ results.residueParts = Zero
        /\ ([i \in 1..Len(normalizedHeirs) |-> normalizedHeirs[i].relationship]
                = <<"Husband", "Daughter">>
            => ReportedParts = <<6000, 18000>>)
\* C5: Radd.  When the total parts are below 24, no residuary group took the
\* residue and an active heir other than a spouse holds a fixed share, the case
\* becomes "Radd", the base stays 24, the parts of Husband and Wife stay as they
\* are and every eligible heir's parts become
\* original + (original / sum of the eligible originals) * shortfall; the total
\* the function returns is 24.  Husband + one Daughter: Husband 6, Daughter 18.
C5_Radd == [][RaddStep]_vars /\ []RaddResult

\* Radd was applied to a Husband and one Daughter
C5_Witness ==
    /\ Returned /\ results.case = "Radd"
    /\ [i \in 1..Len(normalizedHeirs) |-> normalizedHeirs[i].relationship] = <<"Husband", "Daughter">>
    /\ ReportedParts = <<6000, 18000>>

\* the step that settles the case, and what it does when it settles on Awl
AwlStep ==
    LET total == FSum(MapValues(partsMap))
    IN  pc = "adjust" =>
            /\ results'.case = "Awl" <=> FGt(total, Num(24))
            /\ results'.case = "Awl" =>
                  /\ results'.baseNumber = total
                  /\ partsMap' = partsMap
                  /\ partsMap = FixedParts(normalizedHeirs, Active, Len(Active))
                  /\ results'.notes = Append(results.notes, [name |-> 0, text |-> "Awl Case"])
AwlResult ==
    Returned =>
        /\ results.case = "Awl" => results.baseNumber = finalTotal /\ FGt(finalTotal, Num(24))
        /\ results.case # "Awl" => results.baseNumber = Num(24)

\* C6: Awl.  The case is "Awl" exactly when the total parts after the residue
\* distribution exceed 24; then baseNumber is that total, every heir's parts
\* are the fixed parts, unchanged, and an Awl note is appended; in every other
\* case baseNumber is 24.
C6_Awl == [][AwlStep]_vars /\ []AwlResult

\* the residuary groups in their order of priority, with the relationship that opens each
ResiduaryOrder ==
    << {"Son", "Daughter"}, {"Grandson", "Granddaughter"}, {"Father"}, {"Grandfather"},
       {"Full Brother", "Full Sister"}, {"Consanguine Brother", "Consanguine Sister"},
       {"Full Nephew"} >>
ResiduaryHead == <<"Son", "Grandson", "Father", "Grandfather", "Full Brother",
                   "Consanguine Brother", "Full Nephew">>
HasActiveResiduary == \E k \in 1..Len(ResiduaryHead) : ActiveOf({ResiduaryHead[k]}) # {}
FirstResiduary == CHOOSE k \in 1..Len(ResiduaryHead) :
    /\ ActiveOf({ResiduaryHead[k]}) # {}
    /\ \A j \in 1..(k - 1) : ActiveOf({ResiduaryHead[j]}) = {}
\* C7: when the fixed parts sum to less than 24, the residue goes to one
\* residuary group, the first in the order Son (+ Daughters), Grandson
\* (+ Granddaughters), Father, Grandfather, Full Brother (+ Full Sisters),
\* Consanguine Brother (+ Consanguine Sisters), Full Nephew that has an active
\* member; no heir outside it receives residue, and the total parts are then 24
\* with case "Standard".
C7_ResidueToFirstGroup ==
    (Returned /\ Positive(residue) /\ HasActiveResiduary) =>
        /\ group # <<>>
        /\ {group[i].id : i \in 1..Len(group)} \subseteq ActiveOf(ResiduaryOrder[FirstResiduary])
        /\ \A i \in 1..Len(Active) :
              Active[i].id \notin {group[j].id : j \in 1..Len(group)}
              => PartsOf(partsMap, Active[i].id) = FixedShare(normalizedHeirs, Active[i]).parts
        /\ finalTotal = Num(24)
        /\ results.case = "Standard"

\* C8: with an empty heir list or an estate amount of zero the result has an
\* empty heirs list and zero totals.
C8_DegenerateInput ==
    (Returned /\ (heirs = <<>> \/ netEstate = 0)) =>
        /\ results.heirs = <<>>
        /\ results.totalFixedParts = Zero
        /\ \A g \in DOMAIN results.groupSummary : results.groupSummary[g].totalShare = Zero

\* the relationships the calculation knows, and the heirs that carry none of them
Canonical ==
    {"Husband", "Wife", "Father", "Mother", "Son", "Daughter", "Grandson", "Granddaughter",
     "Grandfather", "Grandmother", "Full Brother", "Full Sister", "Consanguine Brother",
     "Consanguine Sister", "Uterine Brother", "Uterine Sister", "Full Nephew"}
Unmapped(h) == h.relationship \notin Canonical \cup alwaysExcluded \cup distantKindred
\* C9: an heir whose relationship string maps to no canonical category holds
\* no parts after any stage and is reported with the fraction "Excluded".
C9_UnmappedReportedExcluded ==
    /\ \A i \in 1..Len(normalizedHeirs) :
          Unmapped(normalizedHeirs[i]) => ~MapHas(partsMap, normalizedHeirs[i].id)
    /\ Returned =>
          \A i \in 1..Len(normalizedHeirs) :
              Unmapped(normalizedHeirs[i]) =>
                  \E j \in ReportsOf(normalizedHeirs[i].id) : results.heirs[j].fraction = "Excluded"

\* C10: result.notes holds a note for every heir whose relationship label maps
\* to no canonical category.
C10_UnmappedFlagged ==
    (Returned /\ heirs # <<>>) =>
        \A i \in 1..Len(normalizedHeirs) :
            Unmapped(normalizedHeirs[i]) =>
                \E n \in 1..Len(results.notes) : results.notes[n].name = normalizedHeirs[i].id

(***************************************************************************)
(* One heir under any of the labels the code tells apart, with gender and  *)
(* heir group varied where the code reads them, among up to MaxCompanions  *)
(* heirs of plain kinds.                                                   *)
(***************************************************************************)
MaxCompanions == 2

LabelKinds ==
    << Kind("Spouse", "Male", "Spouses"), Kind("Spouse", "Female", "Spouses"),
       Kind("Spouse", "None", "Spouses"), Kind("Spouse", "Male", "Wives"),
       Kind("Spouse", "Female", "Wives"), Kind("Spouse", "None", "Wives"),
       Kind("Child", "None", "Sons"), Kind("Child", "None", "Daughters"),
       Kind("Child", "None", "Others"), Kind("Children", "None", "Sons"),
       Kind("Children", "None", "Daughters"),
       Kind("Grandson (Son's Son)", "None", "Others"), Kind("Son's Son", "None", "Others"),
       Kind("Son's Daughter", "None", "Others"), Kind("Paternal Brother", "None", "Others"),
       Kind("Paternal Sister", "None", "Others"), Kind("Maternal Sibling", "Male", "Others"),
       Kind("Maternal Sibling", "Female", "Others"), Kind("Maternal Sibling", "None", "Others"),
       Kind("Paternal Grandfather", "None", "Others"),
       Kind("Maternal Grandmother", "None", "Others"),
       Kind("Paternal Grandmother", "None", "Others"),
       Kind("Full Nephew (Brother's Son)", "None", "Others"),
       Kind("Brother's Son", "None", "Others"),
       Kind("Step-father", "None", "Others"), Kind("Step-mother", "None", "Others"),
       Kind("Adopted Child", "None", "Others"), Kind("Foster Relations", "None", "Others"),
       Kind("Illegitimate Child", "None", "Others"),
       Kind("Maternal Grandfather", "None", "Others"),
       Kind("Daughter's Children", "None", "Others"), Kind("Paternal Aunt", "None", "Others"),
       Kind("Maternal Aunt", "None", "Others"), Kind("Nephew (Sister's Son)", "None", "Others"),
       Kind("Nephew (Sis)", "None", "Others"),
       Kind("Niece (Sister's Daughter)", "None", "Others"),
       Kind("Granddaughter (Daughter's Daughter)", "None", "Others"),
       Kind("Distant Cousin", "None", "Others"),
       Kind("Daughter", "Male", "Daughters"),
       Kind("Half Brother", "None", "Others"), Kind("Step Sister", "None", "Others"),
       Kind("Distant Uncle", "None", "Others"),
       Kind("Son", "None", "constructor"), Kind("Daughter", "None", "__proto__") >>

CompanionKinds ==
    << Kind("Husband", "None", "Spouses"), Kind("Father", "None", "Parents"),
       Kind("Mother", "None", "Parents"),
       Kind("Son", "None", "Sons"), Kind("Daughter", "None", "Daughters"),
       Kind("Full Sister", "None", "Others") >>

LabelRosters ==
    {<<>>} \cup
    UNION {{[i \in 1..(Len(s) + 1) |->
                IF i = p THEN Heir(i, LabelKinds[k])
                ELSE Heir(i, CompanionKinds[s[IF i < p THEN i ELSE i - 1]])] :
              p \in 1..(Len(s) + 1), k \in 1..Len(LabelKinds)} :
           s \in KindSeqs(Len(CompanionKinds), MaxCompanions)}

InitLabels ==
    /\ heirs \in LabelRosters
    /\ netEstate \in Estates
    /\ call = 1
    /\ first = Undefined
    /\ inherited = NoWrites
    /\ Begin

SpecLabels == InitLabels /\ [][Next]_vars

\* C11: calculateFaraid is deterministic and free of side effects: no step of
\* a call changes the estate or the heir objects it was given (the residue
\* weight _w is written to the copies the normalization made) or any object
\* outside the call, and a second call with the same arguments returns a
\* result equal to the first.
C11_DeterministicNoSideEffect ==
    /\ [][heirs' = heirs /\ netEstate' = netEstate /\ inherited' = inherited]_vars
    /\ []((Returned /\ call = 2) => results = first)

\* what the normalization made of the label of the i-th heir of the roster
Normalized(i) == normalizedHeirs[i].relationship
WasNormalized == pc # "start" /\ heirs # <<>>

\* C12: the normalization turns 'Child' and 'Children' into Son in the heir
\* group 'Sons' and into Daughter in the group 'Daughters', and 'Spouse' into
\* Husband whenever the gender is 'Male' and into Wife whenever it is 'Female';
\* heirs of one roster with the same label, group and gender get the same
\* canonical relationship.
C12_Normalization ==
    WasNormalized =>
        /\ \A i \in 1..Len(heirs) :
              /\ (heirs[i].relationship \in {"Child", "Children"} /\ heirs[i].heir_group = "Sons")
                    => Normalized(i) = "Son"
              /\ (heirs[i].relationship \in {"Child", "Children"}
                    /\ heirs[i].heir_group = "Daughters") => Normalized(i) = "Daughter"
              /\ (heirs[i].relationship = "Spouse" /\ heirs[i].gender = "Male")
                    => Normalized(i) = "Husband"
              /\ (heirs[i].relationship = "Spouse" /\ heirs[i].gender = "Female")
                    => Normalized(i) = "Wife"
        /\ \A i, j \in 1..Len(heirs) :
              (/\ heirs[i].relationship = heirs[j].relationship
               /\ heirs[i].heir_group = heirs[j].heir_group
               /\ heirs[i].gender = heirs[j].gender) => Normalized(i) = Normalized(j)

\* the roster heirs of an heir group, and the amounts result.heirs reports for the group
HeirsOfGroup(g) == {i \in 1..Len(heirs) : heirs[i].heir_group = g}
AmountsOfGroup(g) ==
    [i \in 1..Len(SelectSeq(results.heirs, LAMBDA h : h.heir_group = g)) |->
        SelectSeq(results.heirs, LAMBDA h : h.heir_group = g)[i].shareAmount]

\* C13: for each heir-group label of the roster, result.groupSummary has an
\* entry whose count is the number of roster heirs with that label and whose
\* totalShare is the sum of the shareAmounts of those heirs.
C13_GroupSummary ==
    (Returned /\ heirs # <<>>) =>
        \A i \in 1..Len(heirs) :
            /\ heirs[i].heir_group \in DOMAIN results.groupSummary
            /\ results.groupSummary[heirs[i].heir_group].count
                  = Cardinality(HeirsOfGroup(heirs[i].heir_group))
            /\ results.groupSummary[heirs[i].heir_group].totalShare
                  = Num(Sum(AmountsOfGroup(heirs[i].heir_group)))

\* the Number a reported decimal of three places stands for (parseFloat)
ReportedNumber(thousandths) == FDiv(Num(thousandths), Num(1000))

\* C14: for every heir of the result, shareAmount is (parts / baseNumber) x
\* estate rounded to the nearest unit and sharePercentage is
\* (parts / baseNumber) x 100 (to the two decimals reported), parts and
\* baseNumber being the ones the result reports.
C14_AmountsFromParts ==
    Returned =>
        \A i \in 1..Len(results.heirs) :
            /\ results.heirs[i].shareAmount =
                  MathRound(FMul(FDiv(ReportedNumber(results.heirs[i].parts), results.baseNumber),
                                 Num(netEstate)))
            /\ results.heirs[i].sharePercentage =
                  ToFixed(FMul(FDiv(ReportedNumber(results.heirs[i].parts), results.baseNumber),
                               Num(100)), 2)

(***************************************************************************)
(* Exclusion rules, stated on the canonical labels of the roster.          *)
(***************************************************************************)
ExclusionDone == pc \notin {"start", "exclusion"}
InRoster(r) == \E j \in 1..Len(normalizedHeirs) : normalizedHeirs[j].relationship = r
NumberOf(r) == Cardinality({j \in 1..Len(normalizedHeirs) : normalizedHeirs[j].relationship = r})
\* every heir labelled r is in the excluded set exactly when blocked holds
ExcludedExactlyWhen(r, blocked) ==
    \A i \in 1..Len(normalizedHeirs) :
        normalizedHeirs[i].relationship = r => (normalizedHeirs[i].id \in isExcluded <=> blocked)
IsExcludedLabel(r) ==
    \E i \in 1..Len(normalizedHeirs) :
        normalizedHeirs[i].relationship = r /\ normalizedHeirs[i].id \in isExcluded

(***************************************************************************)
(* The lineal heirs: descendants and ascendants of two generations, up to  *)
(* MaxLineal heirs in every order, so that two Daughters, a Granddaughter  *)
(* and a Grandson meet in one roster.                                      *)
(***************************************************************************)
MaxLineal == 4

LinealKinds ==
    << Kind("Son", "None", "Sons"), Kind("Daughter", "None", "Daughters"),
       Kind("Grandson", "None", "Others"), Kind("Granddaughter", "None", "Others"),
       Kind("Father", "None", "Parents"), Kind("Mother", "None", "Parents"),
       Kind("Grandfather", "None", "Others"), Kind("Grandmother", "None", "Others") >>

InitLineal ==
    /\ heirs \in RostersOver(LinealKinds, MaxLineal)
    /\ netEstate = MaxEstate
    /\ call = 1
    /\ first = Undefined
    /\ inherited = NoWrites
    /\ Begin

SpecLineal == InitLineal /\ [][Next]_vars

\* C15: a Grandson is excluded exactly when a Son is in the roster; a
\* Granddaughter exactly when a Son is in the roster or at least two Daughters
\* are and no Grandson is; a Grandfather exactly when a Father is; a
\* Grandmother exactly when a Mother is.
C15_LinealExclusion ==
    ExclusionDone =>
        /\ ExcludedExactlyWhen("Grandson", InRoster("Son"))
        /\ ExcludedExactlyWhen("Granddaughter",
               InRoster("Son") \/ (NumberOf("Daughter") >= 2 /\ ~InRoster("Grandson")))
        /\ ExcludedExactlyWhen("Grandfather", InRoster("Father"))
        /\ ExcludedExactlyWhen("Grandmother", InRoster("Mother"))
\* two Daughters, a Granddaughter and a Grandson: the Granddaughter stays
C15_Witness ==
    /\ Returned
    /\ NumberOf("Daughter") = 2
    /\ InRoster("Grandson")
    /\ ~InRoster("Son")
    /\ \E i \in 1..Len(normalizedHeirs) :
          normalizedHeirs[i].relationship = "Granddaughter" /\ IsActive(isExcluded, normalizedHeirs[i])

MaleDescendantOrFather == InRoster("Son") \/ InRoster("Grandson") \/ InRoster("Father")
AnyDescendant ==
    InRoster("Son") \/ InRoster("Grandson") \/ InRoster("Daughter") \/ InRoster("Granddaughter")

\* C16: a Full Brother or Full Sister is excluded exactly when a Son, Grandson
\* or Father is in the roster; a Consanguine Brother or Sister exactly when one
\* of these or a Full Brother is; a Uterine Brother or Sister exactly when any
\* descendant, a Father or a Grandfather is.
C16_SiblingExclusion ==
    ExclusionDone =>
        /\ ExcludedExactlyWhen("Full Brother", MaleDescendantOrFather)
        /\ ExcludedExactlyWhen("Full Sister", MaleDescendantOrFather)
        /\ ExcludedExactlyWhen("Consanguine Brother", MaleDescendantOrFather \/ InRoster("Full Brother"))
        /\ ExcludedExactlyWhen("Consanguine Sister", MaleDescendantOrFather \/ InRoster("Full Brother"))
        /\ ExcludedExactlyWhen("Uterine Brother",
               AnyDescendant \/ InRoster("Father") \/ InRoster("Grandfather"))
        /\ ExcludedExactlyWhen("Uterine Sister",
               AnyDescendant \/ InRoster("Father") \/ InRoster("Grandfather"))
C16_Witness ==
    /\ Returned
    /\ IsExcludedLabel("Full Sister")
    /\ IsExcludedLabel("Consanguine Sister")
    /\ InRoster("Son")

HoldsParts(i) == PartsOf(partsMap, normalizedHeirs[i].id) # Zero

\* C17: a Full Nephew is excluded exactly when a Son, Grandson, Father,
\* Grandfather or Full Brother is in the roster, and holds parts only when he
\* is not excluded and no Consanguine Brother is in the roster.
C17_FullNephew ==
    /\ ExclusionDone =>
          ExcludedExactlyWhen("Full Nephew",
              MaleDescendantOrFather \/ InRoster("Grandfather") \/ InRoster("Full Brother"))
    /\ \A i \in 1..Len(normalizedHeirs) :
          (normalizedHeirs[i].relationship = "Full Nephew" /\ HoldsParts(i)) =>
              /\ normalizedHeirs[i].id \notin isExcluded
              /\ ~InRoster("Consanguine Brother")
    /\ \A i \in 1..Len(results.heirs) :
          (results.heirs[i].relationship = "Full Nephew" /\ results.heirs[i].parts > 0) =>
              /\ results.heirs[i].id \notin isExcluded
              /\ ~InRoster("Consanguine Brother")
C17_Witness ==
    /\ Returned
    /\ InRoster("Full Nephew")
    /\ InRoster("Grandmother")
    /\ ~IsExcludedLabel("Full Nephew")
    /\ \E i \in 1..Len(results.heirs) :
          results.heirs[i].relationship = "Full Nephew" /\ results.heirs[i].parts > 0

\* the labels, as the roster gives them, of the heirs with no inheritance rights
\* and of the distant kindred
BarredLabels ==
    {"Step-father", "Step-mother", "Adopted Child", "Foster Relations", "Illegitimate Child"}
DistantLabels ==
    {"Maternal Grandfather", "Daughter's Children", "Paternal Aunt", "Maternal Aunt",
     "Nephew (Sister's Son)", "Nephew (Sis)", "Niece (Sister's Daughter)",
     "Granddaughter (Daughter's Daughter)"}

\* C18: a barred heir (step-parent, adopted child, foster relation,
\* illegitimate child) and a distant-kindred heir are in the excluded set
\* whatever the rest of the roster is, also as the only heir.
C18_BarredAndDistantExcluded ==
    ExclusionDone =>
        \A i \in 1..Len(heirs) :
            heirs[i].relationship \in BarredLabels \cup DistantLabels => heirs[i].id \in isExcluded
C18_Witness ==
    /\ Returned
    /\ Len(heirs) = 1
    /\ heirs[1].relationship = "Paternal Aunt"
    /\ heirs[1].id \in isExcluded
    /\ results.heirs = <<>>

\* the notes of the Awl and Radd cases, and the notes that name the heir id
CaseNotes == {n \in 1..Len(results.notes) : results.notes[n].text \in {"Awl Case", "Radd Case"}}
NotesNaming(id) ==
    {n \in 1..Len(results.notes) : n \notin CaseNotes /\ results.notes[n].name = id}

\* C19: every heir in the excluded set has at least one note that names that
\* heir, and every note is either an exclusion note of an excluded heir or the
\* one note of the Awl or Radd case.
C19_NotesMatchExclusions ==
    ExclusionDone =>
        /\ \A id \in isExcluded : NotesNaming(id) # {}
        /\ \A n \in 1..Len(results.notes) :
              n \in CaseNotes \/ results.notes[n].name \in isExcluded
        /\ Cardinality(CaseNotes) <= 1
C19_Witness ==
    /\ Returned
    /\ Cardinality(CaseNotes) = 1
    /\ Cardinality(isExcluded) = 2
    /\ Len(results.notes) = 3

FixedSharesDone == pc \notin {"start", "exclusion", "fixed"}
WivesPool == IF AnyDescendant THEN 3 ELSE 6

\* C20: a Husband holds 6 fixed parts when the roster has any descendant and 12
\* otherwise; the Wives share a pool of 3 parts with a descendant and 6 without,
\* each Wife holding the pool divided by the number of Wives.
C20_SpouseShares ==
    FixedSharesDone =>
        \A i \in 1..Len(normalizedHeirs) :
            /\ normalizedHeirs[i].relationship = "Husband" =>
                  PartsOf(partsMap, normalizedHeirs[i].id) = Num(IF AnyDescendant THEN 6 ELSE 12)
            /\ normalizedHeirs[i].relationship = "Wife" =>
                  PartsOf(partsMap, normalizedHeirs[i].id) =
                      FDiv(Num(WivesPool), Num(NumberOf("Wife")))
C20_Witness ==
    /\ Returned
    /\ NumberOf("Wife") = 2
    /\ InRoster("Daughter")
    /\ \A i \in 1..Len(results.heirs) :
          results.heirs[i].relationship = "Wife" => results.heirs[i].parts = 1500

(***************************************************************************)
(* Fixed shares, read in the state the fixed-share stage leaves.           *)
(***************************************************************************)
FixedSharesSet == pc = "residue"
FixedPartsOf(i) == PartsOf(partsMap, normalizedHeirs[i].id)
SiblingCategories ==
    {"Full Brother", "Full Sister", "Consanguine Brother", "Consanguine Sister",
     "Uterine Brother", "Uterine Sister"}
SiblingsInRoster ==
    Cardinality({j \in 1..Len(normalizedHeirs) :
                    normalizedHeirs[j].relationship \in SiblingCategories})

\* C21: a Mother holds 4 fixed parts exactly when the roster has a descendant
\* or at least two heirs of a sibling category (Full, Consanguine or Uterine
\* Brother or Sister, excluded or not), and 8 otherwise; an heir of no sibling
\* category, such as a sister's daughter, does not count.
C21_MotherShare ==
    FixedSharesSet =>
        \A i \in 1..Len(normalizedHeirs) :
            normalizedHeirs[i].relationship = "Mother" =>
                FixedPartsOf(i) = Num(IF AnyDescendant \/ SiblingsInRoster >= 2 THEN 4 ELSE 8)

IsActiveHeir(i) == normalizedHeirs[i].id \notin isExcluded
NoMaleDescendant == ~InRoster("Son") /\ ~InRoster("Grandson")
AscendantFixedParts == Num(IF AnyDescendant THEN 4 ELSE 0)
ResidueStageDone == pc \in {"adjust", "output", "done"}
\* every heir labelled r is the residuary heir and took the whole residue on
\* top of the fixed parts
TookWholeResidue(r) ==
    \A i \in 1..Len(normalizedHeirs) :
        normalizedHeirs[i].relationship = r =>
            /\ group = <<normalizedHeirs[i]>>
            /\ pc = "adjust" => FixedPartsOf(i) = FAdd(AscendantFixedParts, residue.abs)

\* C22: a Father holds 4 fixed parts when the roster has a descendant and none
\* otherwise; with no male descendant he is the residuary heir and takes the
\* whole positive residue on top.  An active Grandfather follows the same rule
\* when there is no Father, and the active Grandmothers share 4 parts equally.
C22_AscendantShares ==
    /\ FixedSharesSet =>
          \A i \in 1..Len(normalizedHeirs) :
              /\ normalizedHeirs[i].relationship = "Father" => FixedPartsOf(i) = AscendantFixedParts
              /\ (normalizedHeirs[i].relationship = "Grandfather" /\ IsActiveHeir(i)) =>
                    FixedPartsOf(i) = AscendantFixedParts
              /\ (normalizedHeirs[i].relationship = "Grandmother" /\ IsActiveHeir(i)) =>
                    FixedPartsOf(i) = FDiv(Num(4), Num(NumberOf("Grandmother")))
    /\ (ResidueStageDone /\ Positive(residue) /\ NoMaleDescendant) =>
          TookWholeResidue("Father")
    /\ (ResidueStageDone /\ Positive(residue) /\ NoMaleDescendant /\ ~InRoster("Father")) =>
          TookWholeResidue("Grandfather")
DaughterParts ==
    IF InRoster("Son") THEN Zero
    ELSE IF NumberOf("Daughter") = 1 THEN Num(12)
    ELSE FDiv(Num(16), Num(NumberOf("Daughter")))
GranddaughterParts ==
    IF InRoster("Grandson") THEN Zero
    ELSE IF ~InRoster("Daughter")
    THEN (IF NumberOf("Granddaughter") = 1 THEN Num(12)
          ELSE FDiv(Num(16), Num(NumberOf("Granddaughter"))))
    ELSE IF NumberOf("Daughter") = 1 THEN FDiv(Num(4), Num(NumberOf("Granddaughter")))
    ELSE Zero
\* the fixed parts of the heirs labelled r, in roster order
FixedPartsOfLabel(r) ==
    [k \in 1..Len(SelectSeq(normalizedHeirs, LAMBDA h : h.relationship = r)) |->
        PartsOf(partsMap, SelectSeq(normalizedHeirs, LAMBDA h : h.relationship = r)[k].id)]

\* C23: Daughters hold fixed parts only without a Son: 12 for one Daughter,
\* else 16 divided by their number.  Active Granddaughters hold fixed parts only
\* without a Grandson: with no Daughter 12 for one or 16 divided by their
\* number, with exactly one Daughter 4 divided by their number, Daughter and
\* Granddaughters then holding 16 together.
C23_DaughterShares ==
    FixedSharesSet =>
        /\ \A i \in 1..Len(normalizedHeirs) :
              /\ normalizedHeirs[i].relationship = "Daughter" => FixedPartsOf(i) = DaughterParts
              /\ (normalizedHeirs[i].relationship = "Granddaughter" /\ IsActiveHeir(i)) =>
                    FixedPartsOf(i) = GranddaughterParts
        /\ (NumberOf("Daughter") = 1 /\ InRoster("Granddaughter") /\ NoMaleDescendant) =>
              FSum(FixedPartsOfLabel("Daughter") \o FixedPartsOfLabel("Granddaughter")) = Num(16)
C23_Witness ==
    /\ FixedSharesSet
    /\ NumberOf("Daughter") = 1
    /\ NumberOf("Granddaughter") = 2
    /\ \A i \in 1..Len(normalizedHeirs) :
          normalizedHeirs[i].relationship = "Granddaughter" => FixedPartsOf(i) = Num(2)

SisterBlocked ==
    InRoster("Full Brother") \/ AnyDescendant \/ InRoster("Father") \/ InRoster("Grandfather")
FullSisterParts ==
    IF SisterBlocked THEN Zero
    ELSE IF NumberOf("Full Sister") = 1 THEN Num(12)
    ELSE FDiv(Num(16), Num(NumberOf("Full Sister")))
ConsanguineSisterParts ==
    IF SisterBlocked \/ InRoster("Consanguine Brother") THEN Zero
    ELSE IF ~InRoster("Full Sister")
    THEN (IF NumberOf("Consanguine Sister") = 1 THEN Num(12)
          ELSE FDiv(Num(16), Num(NumberOf("Consanguine Sister"))))
    ELSE IF NumberOf("Full Sister") = 1 THEN FDiv(Num(4), Num(NumberOf("Consanguine Sister")))
    ELSE Zero

\* C24: Full Sisters hold fixed parts (12 for one, else 16 shared) only
\* without a Full Brother, descendant, Father or Grandfather; Consanguine
\* Sisters only when there is no Consanguine Brother either: 12 or 16 shared
\* with no Full Sister, 4 shared with exactly one, none with two or more; the
\* sisters' fixed parts never exceed 16 together.
C24_SisterShares ==
    FixedSharesSet =>
        /\ \A i \in 1..Len(normalizedHeirs) :
              /\ normalizedHeirs[i].relationship = "Full Sister" => FixedPartsOf(i) = FullSisterParts
              /\ normalizedHeirs[i].relationship = "Consanguine Sister" =>
                    FixedPartsOf(i) = ConsanguineSisterParts
        /\ ~FGt(FSum(FixedPartsOfLabel("Full Sister") \o FixedPartsOfLabel("Consanguine Sister")),
                Num(16))
C24_Witness ==
    /\ FixedSharesSet
    /\ NumberOf("Full Sister") = 1
    /\ NumberOf("Consanguine Sister") = 2
    /\ \A i \in 1..Len(normalizedHeirs) :
          /\ normalizedHeirs[i].relationship = "Consanguine Sister" => FixedPartsOf(i) = Num(2)
          /\ normalizedHeirs[i].relationship = "Full Sister" => FixedPartsOf(i) = Num(12)

UterineInRoster == NumberOf("Uterine Brother") + NumberOf("Uterine Sister")

\* C25: the active Uterine Brothers and Sisters are counted together: a single
\* one holds 4 fixed parts, two or more hold 8 parts divided equally among them
\* whatever their sex.
C25_UterineShares ==
    FixedSharesSet =>
        \A i \in 1..Len(normalizedHeirs) :
            (normalizedHeirs[i].relationship \in {"Uterine Brother", "Uterine Sister"}
               /\ IsActiveHeir(i)) =>
                FixedPartsOf(i) = FDiv(Num(IF UterineInRoster = 1 THEN 4 ELSE 8), Num(UterineInRoster))

MaleLine ==
    {"Son", "Grandson", "Father", "Grandfather", "Full Brother", "Consanguine Brother",
     "Full Nephew"}
\* the weight the canonical relationship alone gives
WeightOfRelationship(r) == IF r \in MaleLine THEN 2 ELSE 1
RECURSIVE SumOfWeights(_, _)
SumOfWeights(g, n) ==
    IF n = 0 THEN 0 ELSE SumOfWeights(g, n - 1) + WeightOfRelationship(g[n].relationship)
\* the step of the residue stage that hands the residue to the group
DistributesResidue == pc = "residue" /\ pc' = "adjust" /\ Positive(residue') /\ group' # <<>>

\* C26: when the residue is distributed, each member of the winning residuary
\* group gets weight / (sum of weights) x residue on top of the fixed parts,
\* with weight 2 for the male-line relationships and 1 for the others, whatever
\* the gender field holds.
C26_ResidueByWeight ==
    [][DistributesResidue =>
          \A i \in 1..Len(group') :
              PartsOf(partsMap', group'[i].id) =
                  FAdd(PartsOf(partsMap, group'[i].id),
                       FMul(FDiv(Num(WeightOfRelationship(group'[i].relationship)),
                                 Num(SumOfWeights(group', Len(group')))),
                            residue'.abs))]_vars

AdjustmentDone == pc \in {"output", "done"}

\* C27: any two active heirs with the same canonical relationship hold equal
\* parts after the fixed-share, residue and Radd stages, whatever their order in
\* the roster and their other attributes.
C27_EqualWithinCategory ==
    AdjustmentDone =>
        \A i, j \in 1..Len(normalizedHeirs) :
            (IsActiveHeir(i) /\ IsActiveHeir(j)
               /\ normalizedHeirs[i].relationship = normalizedHeirs[j].relationship) =>
                PartsOf(partsMap, normalizedHeirs[i].id) = PartsOf(partsMap, normalizedHeirs[j].id)

PlainLabels ==
    {"1/2", "1/4", "1/4 (Shared)", "1/8", "1/8 (Shared)", "1/6", "1/6 (Shared)",
     "1/6 (Complement)", "1/3", "1/3 (Shared)", "2/3 (Shared)"}
ResidueOnce == {l \o " + Residue" : l \in PlainLabels}
EndsInResidue(l) == l \in ResidueOnce \/ l \in {k \o " + Residue" : k \in ResidueOnce}
HoldsFixedShare(i) ==
    IsActiveHeir(i) /\ FixedShare(normalizedHeirs, normalizedHeirs[i]).parts # Zero
ReceivedResidue(i) ==
    Positive(residue) /\ \E k \in 1..Len(group) : group[k].id = normalizedHeirs[i].id
LabelAfterResidue(i) == LabelOf(labelMap, normalizedHeirs[i].id)

\* C28: after the residue stage an heir's label ends in " + Residue", appended
\* once to the fixed-share label, exactly when the heir holds a fixed share and
\* received a residue share; an heir with residue only is labelled "Residue",
\* and the label of an heir without residue does not mention the residue.
C28_ResidueLabel ==
    pc = "adjust" =>
        \A i \in 1..Len(normalizedHeirs) :
            /\ EndsInResidue(LabelAfterResidue(i)) <=> (HoldsFixedShare(i) /\ ReceivedResidue(i))
            /\ (HoldsFixedShare(i) /\ ReceivedResidue(i)) => LabelAfterResidue(i) \in ResidueOnce
            /\ (~HoldsFixedShare(i) /\ ReceivedResidue(i)) => LabelAfterResidue(i) = "Residue"
            /\ ~ReceivedResidue(i) => LabelAfterResidue(i) \in PlainLabels \cup {""}

TotalParts == FSum(MapValues(partsMap))

\* C29: for every non-empty roster the result satisfies totalFixedParts +
\* residueParts = baseNumber; residueParts is 0 whenever the residue went to a
\* residuary group or Radd or Awl applied, and otherwise 24 minus the total parts.
C29_PartsAndResidueMakeBase ==
    (Returned /\ heirs # <<>>) =>
        /\ FAdd(results.totalFixedParts, results.residueParts) = results.baseNumber
        /\ IF ResidueDistributed \/ results.case \in {"Radd", "Awl"}
           THEN results.residueParts = Zero
           ELSE results.residueParts = FSub(Num(24), TotalParts)
C29_Witness ==
    /\ Returned
    /\ ~ResidueDistributed
    /\ results.case = "Standard"
    /\ results.totalFixedParts = Num(12)
    /\ results.residueParts = Num(12)

(***************************************************************************)
(* Larger families of a few categories: a Husband, parents, Daughters and  *)
(* Grandsons, up to MaxFamily heirs.  Three Daughters share 16 parts in    *)
(* thirds that no double holds exactly.                                    *)
(***************************************************************************)
MaxFamily == 6

FamilyKinds ==
    << Kind("Husband", "None", "Spouses"), Kind("Father", "None", "Parents"),
       Kind("Mother", "None", "Parents"), Kind("Daughter", "None", "Daughters"),
       Kind("Grandson", "None", "Others") >>

FamilyRosters == RostersOver(FamilyKinds, MaxFamily)

InitFamily ==
    /\ heirs \in FamilyRosters
    /\ netEstate = MaxEstate
    /\ call = 1
    /\ first = Undefined
    /\ inherited = NoWrites
    /\ Begin

SpecFamily == InitFamily /\ [][Next]_vars

\* C30: in the result an heir's fraction label is "Excluded" exactly when the
\* heir's parts are 0: a label is recorded only together with positive parts.
C30_ExcludedIffNoParts ==
    Returned =>
        \A i \in 1..Len(results.heirs) :
            results.heirs[i].fraction = "Excluded" <=> results.heirs[i].parts = 0

====
